---- MODULE Spec2Model ----
(***************************************************************************)
(* Model of the contact merge workflow of contactEditor.js: merge(),       *)
(* updateAndRemove(), mergeProgressAnnouncer() and summarizeMergeResults().*)
(* Promises are modelled with an explicit FIFO job (microtask) queue:      *)
(* settling a promise enqueues its reactions in registration order.        *)
(***************************************************************************)
EXTENDS Integers, Sequences, FiniteSets, TLC

\* Bounds of the model: number of groups in a request, IDs to remove per
\* group, and units of work (contacts to update + IDs to remove) per request.
MaxGroups == 2
MaxDup == 2
MaxUnits == 4

----------------------------------------------------------------------------
\* Values

\* JavaScript undefined.
Undefined == <<"undefined", 0>>
\* The function object `update` of the factory scope (function declaration).
UpdateFunction == <<"function update", 0>>
\* The contact to update of group g, and the k-th ID to remove of group g.
Canonical(g) == <<"contact", g>>
DupID(g, k) == <<g, k>>

NoError == [name |-> "none", message |-> <<"", 0, 0>>]
ConflictError(g) == [name |-> "ContactUpdateError", message |-> <<"update conflict", g, 0>>]
OtherError(g) == [name |-> "Error", message |-> <<"update failed", g, 0>>]
RemoveConflictError(g) == [name |-> "ContactUpdateError", message |-> <<"remove conflict", g, 0>>]
RemoveOtherError(g) == [name |-> "Error", message |-> <<"remove failed", g, 0>>]
SyncError == [name |-> "Error", message |-> <<"sync failed", 0, 0>>]

IsUpdateStepConflict(error) ==
    error.name = "ContactUpdateError" /\ error.message[1] = "update conflict"
\* error instanceof ContactUpdateError
IsContactUpdateError(error) == error.name = "ContactUpdateError"

NoOutcome == [total |-> 0, updated |-> Undefined, hasRemoved |-> FALSE,
              removed |-> <<>>, errors |-> <<>>]

Pending == [state |-> "pending", value |-> NoOutcome, reason |-> NoError]
Fulfilled(v) == [state |-> "fulfilled", value |-> v, reason |-> NoError]
Rejected(e) == [state |-> "rejected", value |-> NoOutcome, reason |-> e]

NoStoreResult == [state |-> "pending", removed |-> <<>>, errors |-> <<>>, error |-> NoError]

----------------------------------------------------------------------------
\* Requests: groups 1..n (Object.keys order), each { update, remove }.

MakeGroup(g, d) == [update |-> Canonical(g), remove |-> [k \in 1..d |-> DupID(g, k)]]

RECURSIVE SumTotals(_, _)
\* groups.reduce((sum, group) => sum + contacts[group].remove.length + 1, 0)
SumTotals(req, n) ==
    IF n = 0 THEN 0 ELSE SumTotals(req, n - 1) + Len(req[n].remove) + 1

Requests ==
    { req \in UNION { { [g \in 1..n |-> MakeGroup(g, d[g])] : d \in [1..n -> 0..MaxDup] }
                      : n \in 0..MaxGroups } :
        SumTotals(req, Len(req)) <= MaxUnits }

----------------------------------------------------------------------------
\* Pure parts of the code

GroupTotalNoUpdate(remove) == Len(remove)
\* const total = 1 + remove.length
GroupTotal(remove) == 1 + Len(remove)

\* errors.map(({ Error }) => Error)
MapError(errors) == [i \in 1..Len(errors) |-> errors[i].Error]

TryOutcomeDropErrors(total, update, res) ==
    [total |-> total, updated |-> update, hasRemoved |-> TRUE,
     removed |-> res.removed, errors |-> <<>>]
\* the object returned by the try block
TryOutcome(total, update, res) ==
    [total |-> total, updated |-> update, hasRemoved |-> TRUE,
     removed |-> res.removed, errors |-> MapError(res.errors)]

UpdatedOnErrorAlways(update, error) == update
UpdatedOnErrorNever(update, error) == Undefined
\* error instanceof ContactUpdateError ? undefined : update
UpdatedOnError(update, error) ==
    IF IsContactUpdateError(error) THEN Undefined ELSE update

CatchRethrow(total, update, error) == Rejected(error)
\* the catch block: the async function resolves with the error outcome
CatchSettlement(total, update, error) ==
    Fulfilled([total |-> total, updated |-> UpdatedOnError(update, error),
               hasRemoved |-> FALSE, removed |-> <<>>,
               errors |-> <<error.message>>])

ContributionCeil(resultTotal, tot) == (resultTotal * 100 + tot - 1) \div tot
\* Math.floor((result.total * 100) / total)
Contribution(resultTotal, tot) == (resultTotal * 100) \div tot

NextProgressAssign(prog, resultTotal, tot) == Contribution(resultTotal, tot)
\* progress += Math.floor((result.total * 100) / total)
NextProgress(prog, resultTotal, tot) == prog + Contribution(resultTotal, tot)

EmptySummary == [updated |-> <<>>, removed |-> <<>>, errors |-> <<>>, total |-> 0]

SummarizeStepAssignTotal(agg, result) ==
    [updated |-> IF result.updated # Undefined
                 THEN Append(agg.updated, result.updated) ELSE agg.updated,
     removed |-> IF result.hasRemoved THEN agg.removed \o result.removed ELSE agg.removed,
     errors |-> agg.errors \o result.errors,
     total |-> IF agg.total = 0 THEN result.total ELSE agg.total]

SummarizeStepOverwrite(agg, result) ==
    [updated |-> IF result.updated # Undefined
                 THEN Append(agg.updated, result.updated) ELSE agg.updated,
     removed |-> IF result.hasRemoved THEN result.removed ELSE agg.removed,
     errors |-> result.errors,
     total |-> IF result.total # 0 THEN agg.total + result.total ELSE agg.total]
\* the reducer callback of summarizeMergeResults
SummarizeStep(agg, result) ==
    [updated |-> IF result.updated # Undefined
                 THEN Append(agg.updated, result.updated) ELSE agg.updated,
     removed |-> IF result.hasRemoved THEN agg.removed \o result.removed ELSE agg.removed,
     errors |-> agg.errors \o result.errors,
     total |-> IF result.total # 0 THEN agg.total + result.total ELSE agg.total]

RECURSIVE ReduceDropFirst(_, _)
ReduceDropFirst(results, n) ==
    IF n <= 1 THEN EmptySummary
    ELSE SummarizeStep(ReduceDropFirst(results, n - 1), results[n])

RECURSIVE Reduce(_, _)
Reduce(results, n) ==
    IF n = 0 THEN EmptySummary ELSE SummarizeStep(Reduce(results, n - 1), results[n])

\* summarizeMergeResults(results)
summarizeMergeResults(results) == Reduce(results, Len(results))

----------------------------------------------------------------------------
VARIABLES
    contacts,        \* the merge request
    pc,              \* "idle" before merge() is called, "running" after
    gpc,             \* per group: position of updateAndRemove
    updRes,          \* per group: settlement of Contact.update
    remRes,          \* per group: settlement of Contact.remove
    actions,         \* per group: the promise returned by updateAndRemove
    jobs,            \* promise job queue, FIFO
    total,           \* merge()'s total
    progress,        \* mergeProgressAnnouncer's progress
    values,          \* Promise.all: collected results
    remaining,       \* Promise.all: elements not yet resolved
    allState,        \* Promise.all(actions): "pending" | "fulfilled" | "rejected"
    allReason,       \* rejection reason carried down the chain
    summarized,      \* value of .then(summarizeMergeResults)
    syncState,       \* eventManager.call(): "notCalled" | "pending" | "fulfilled" | "rejected"
    mergeState,      \* promise returned by merge()
    mergeReason,     \* rejection reason of merge()
    log,             \* calls and emitted events of merge() and its reactions, in order
    removeCalls,     \* per group: number of Contact.remove calls
    progressEvents,  \* data.progress of each progressBar event
    updatedEvents,   \* data.contact of each contactUpdated event
    mergedEvents,    \* data of each contactsMerged event
    storeUpdated,    \* contacts the store has updated
    storeRemoved     \* IDs the store has removed

vars == <<contacts, pc, gpc, updRes, remRes, actions, jobs, total, progress,
          values, remaining, allState, allReason, summarized, syncState,
          mergeState, mergeReason, log, removeCalls, progressEvents,
          updatedEvents, mergedEvents, storeUpdated, storeRemoved>>

N == Len(contacts)
Groups == 1..N

Init ==
    /\ contacts \in Requests
    /\ pc = "idle"
    /\ gpc = [g \in 1..Len(contacts) |-> "notStarted"]
    /\ updRes = [g \in 1..Len(contacts) |-> NoStoreResult]
    /\ remRes = [g \in 1..Len(contacts) |-> NoStoreResult]
    /\ actions = [g \in 1..Len(contacts) |-> Pending]
    /\ jobs = <<>>
    /\ total = 0
    /\ progress = 0
    /\ values = [g \in 1..Len(contacts) |-> NoOutcome]
    /\ remaining = 0
    /\ allState = "pending"
    /\ allReason = NoError
    /\ summarized = EmptySummary
    /\ syncState = "notCalled"
    /\ mergeState = "notCalled"
    /\ mergeReason = NoError
    /\ log = <<>>
    /\ removeCalls = [g \in 1..Len(contacts) |-> 0]
    /\ progressEvents = <<>>
    /\ updatedEvents = <<>>
    /\ mergedEvents = <<>>
    /\ storeUpdated = {}
    /\ storeRemoved = {}

----------------------------------------------------------------------------
MergeCallsActivateLast(n) ==
    [g \in 1..n |-> <<"Contact.update", g>>]
    \o << <<"contactLoaderModal.activate", 0>>, <<"networkActivityTracker.track", 0>> >>
\* The calls merge() makes synchronously, in source order: the loader modal,
\* Contact.update of each group (updateAndRemove runs up to its first await),
\* the activity tracker.
MergeCalls(n) ==
    <<<<"contactLoaderModal.activate", 0>>>>
    \o [g \in 1..n |-> <<"Contact.update", g>>]
    \o <<<<"networkActivityTracker.track", 0>>>>

\* merge(contacts): the synchronous part, up to `return promise`.
merge ==
    /\ pc = "idle"
    /\ pc' = "running"
    /\ log' = MergeCalls(N)
    /\ gpc' = [g \in Groups |-> "awaitUpdate"]
    /\ total' = SumTotals(contacts, N)
    /\ progress' = 0
    /\ remaining' = N
    /\ allState' = IF N = 0 THEN "fulfilled" ELSE "pending"
    /\ jobs' = IF N = 0 THEN <<<<"summarize", 0>>>> ELSE <<>>
    /\ mergeState' = "pending"
    /\ UNCHANGED <<contacts, removeCalls, updRes, remRes, actions, values, allReason,
                   summarized, syncState, mergeReason, progressEvents,
                   updatedEvents, mergedEvents, storeUpdated, storeRemoved>>

\* Contact.update(update) settles (store side).
UpdateOutcomes(g) ==
    { [NoStoreResult EXCEPT !.state = "fulfilled"],
      [NoStoreResult EXCEPT !.state = "rejected", !.error = ConflictError(g)],
      [NoStoreResult EXCEPT !.state = "rejected", !.error = OtherError(g)] }

UpdateSettles(g) ==
    /\ gpc[g] = "awaitUpdate"
    /\ updRes[g].state = "pending"
    /\ \E r \in UpdateOutcomes(g) :
        /\ updRes' = [updRes EXCEPT ![g] = r]
        /\ storeUpdated' = IF r.state = "fulfilled"
                           THEN storeUpdated \cup {contacts[g].update}
                           ELSE storeUpdated
    /\ jobs' = Append(jobs, <<"afterUpdate", g>>)
    /\ UNCHANGED <<contacts, removeCalls, pc, gpc, remRes, actions, total, progress, values,
                   remaining, allState, allReason, summarized, syncState,
                   mergeState, mergeReason, log, progressEvents, updatedEvents,
                   mergedEvents, storeRemoved>>

\* Contact.remove({ IDs }) settles: a partial result for every subset of the
\* IDs, or an outright rejection.
PartialResult(g, S) ==
    LET ids == contacts[g].remove
        keep(id) == id[2] \in S
        fail(id) == id[2] \notin S
        failed == SelectSeq(ids, fail)
    IN [NoStoreResult EXCEPT
            !.state = "fulfilled",
            !.removed = SelectSeq(ids, keep),
            !.errors = [i \in 1..Len(failed) |->
                          [ID |-> failed[i],
                           Error |-> <<"not found", failed[i][1], failed[i][2]>>]]]

RemoveOutcomes(g) ==
    { PartialResult(g, S) : S \in SUBSET (1..Len(contacts[g].remove)) }
    \cup { [NoStoreResult EXCEPT !.state = "rejected", !.error = RemoveConflictError(g)],
           [NoStoreResult EXCEPT !.state = "rejected", !.error = RemoveOtherError(g)] }

RemoveSettles(g) ==
    /\ gpc[g] = "awaitRemove"
    /\ remRes[g].state = "pending"
    /\ \E r \in RemoveOutcomes(g) :
        /\ remRes' = [remRes EXCEPT ![g] = r]
        /\ storeRemoved' = storeRemoved \cup { r.removed[i] : i \in 1..Len(r.removed) }
    /\ jobs' = Append(jobs, <<"afterRemove", g>>)
    /\ UNCHANGED <<contacts, removeCalls, pc, gpc, updRes, actions, total, progress, values,
                   remaining, allState, allReason, summarized, syncState,
                   mergeState, mergeReason, log, progressEvents, updatedEvents,
                   mergedEvents, storeUpdated>>

\* The promise of updateAndRemove settles: its reactions are queued in the
\* order they were registered (mergeProgressAnnouncer, then Promise.all).
SettleAction(g, s) ==
    /\ actions' = [actions EXCEPT ![g] = s]
    /\ gpc' = [gpc EXCEPT ![g] = "settled"]
    /\ jobs' = Tail(jobs) \o << <<"announce", g>>, <<"allElement", g>> >>

\* updateAndRemove resumes after `await Contact.update(update)`.
ResumeAfterUpdate(g) ==
    /\ jobs # <<>> /\ Head(jobs) = <<"afterUpdate", g>>
    /\ IF updRes[g].state = "fulfilled"
       THEN /\ gpc' = [gpc EXCEPT ![g] = "awaitRemove"]
            /\ removeCalls' = [removeCalls EXCEPT ![g] = @ + 1]
            /\ jobs' = Tail(jobs)
            /\ UNCHANGED actions
       ELSE /\ SettleAction(g, CatchSettlement(GroupTotal(contacts[g].remove),
                                               contacts[g].update, updRes[g].error))
            /\ UNCHANGED removeCalls
    /\ UNCHANGED <<contacts, pc, updRes, remRes, total, progress, values,
                   remaining, allState, allReason, summarized, syncState,
                   mergeState, mergeReason, log, progressEvents, updatedEvents,
                   mergedEvents, storeUpdated, storeRemoved>>

\* updateAndRemove resumes after `await Contact.remove({ IDs: remove })`.
ResumeAfterRemove(g) ==
    /\ jobs # <<>> /\ Head(jobs) = <<"afterRemove", g>>
    /\ IF remRes[g].state = "fulfilled"
       THEN SettleAction(g, Fulfilled(TryOutcome(GroupTotal(contacts[g].remove),
                                                 contacts[g].update, remRes[g])))
       ELSE SettleAction(g, CatchSettlement(GroupTotal(contacts[g].remove),
                                            contacts[g].update, remRes[g].error))
    /\ UNCHANGED <<contacts, removeCalls, pc, updRes, remRes, total, progress, values,
                   remaining, allState, allReason, summarized, syncState,
                   mergeState, mergeReason, log, progressEvents, updatedEvents,
                   mergedEvents, storeUpdated, storeRemoved>>

AnnounceEventsProgressOnly(g) == << <<"progressBar", g>> >>
\* the two $rootScope.$emit calls of the announcer callback
AnnounceEvents(g) == << <<"progressBar", g>>, <<"contactUpdated", g>> >>

\* mergeProgressAnnouncer: the action.then((result) => ...) callback.
\* It has no rejection handler: a rejected action skips it.
Announce(g) ==
    /\ jobs # <<>> /\ Head(jobs) = <<"announce", g>>
    /\ jobs' = Tail(jobs)
    /\ IF actions[g].state = "fulfilled"
       THEN /\ progress' = NextProgress(progress, actions[g].value.total, total)
            /\ progressEvents' = Append(progressEvents, progress')
            /\ updatedEvents' = Append(updatedEvents, UpdateFunction)
            /\ log' = log \o AnnounceEvents(g)
       ELSE UNCHANGED <<progress, progressEvents, updatedEvents, log>>
    /\ UNCHANGED <<contacts, removeCalls, pc, gpc, updRes, remRes, actions, total, values,
                   remaining, allState, allReason, summarized, syncState,
                   mergeState, mergeReason, mergedEvents, storeUpdated,
                   storeRemoved>>

AllResolvedEarly(rem) == rem <= 1
AllResolvedOffByOne(rem) == rem = 1
\* Promise.all resolves when no element is left unresolved
AllResolved(rem) == rem = 0

\* Promise.all(actions): the reaction to one element.
AllElement(g) ==
    /\ jobs # <<>> /\ Head(jobs) = <<"allElement", g>>
    /\ IF actions[g].state = "fulfilled"
       THEN /\ values' = [values EXCEPT ![g] = actions[g].value]
            /\ remaining' = remaining - 1
            /\ allState' = IF AllResolved(remaining') /\ allState = "pending"
                           THEN "fulfilled" ELSE allState
            /\ UNCHANGED allReason
       ELSE /\ allState' = IF allState = "pending" THEN "rejected" ELSE allState
            /\ allReason' = IF allState = "pending" THEN actions[g].reason ELSE allReason
            /\ UNCHANGED <<values, remaining>>
    /\ jobs' = IF allState = "pending" /\ allState' # "pending"
               THEN Append(Tail(jobs), <<"summarize", 0>>)
               ELSE Tail(jobs)
    /\ UNCHANGED <<contacts, removeCalls, pc, gpc, updRes, remRes, actions, total, progress,
                   summarized, syncState, mergeState, mergeReason, log,
                   progressEvents, updatedEvents, mergedEvents, storeUpdated,
                   storeRemoved>>

\* .then(summarizeMergeResults)
Summarize ==
    /\ jobs # <<>> /\ Head(jobs) = <<"summarize", 0>>
    /\ jobs' = Append(Tail(jobs), <<"finish", 0>>)
    /\ summarized' = IF allState = "fulfilled"
                     THEN summarizeMergeResults(values) ELSE summarized
    /\ UNCHANGED <<contacts, removeCalls, pc, gpc, updRes, remRes, actions, total, progress,
                   values, remaining, allState, allReason, syncState,
                   mergeState, mergeReason, log, progressEvents, updatedEvents,
                   mergedEvents, storeUpdated, storeRemoved>>

\* .then((summarizedResults) => { emit; emit; return eventManager.call(); })
Finish ==
    /\ jobs # <<>> /\ Head(jobs) = <<"finish", 0>>
    /\ jobs' = Tail(jobs)
    /\ IF allState = "fulfilled"
       THEN /\ log' = log \o << <<"contactsUpdated", 0>>, <<"contactsMerged", 0>>,
                                <<"eventManager.call", 0>> >>
            /\ mergedEvents' = Append(mergedEvents, summarized)
            /\ syncState' = "pending"
            /\ UNCHANGED <<mergeState, mergeReason>>
       ELSE /\ mergeState' = "rejected"
            /\ mergeReason' = allReason
            /\ UNCHANGED <<log, mergedEvents, syncState>>
    /\ UNCHANGED <<contacts, removeCalls, pc, gpc, updRes, remRes, actions, total, progress,
                   values, remaining, allState, allReason, summarized,
                   progressEvents, updatedEvents, storeUpdated, storeRemoved>>

FollowSyncSwallow(ok) == "fulfilled"
\* `return eventManager.call()`: the chain adopts the state of that promise
FollowSync(ok) == IF ok THEN "fulfilled" ELSE "rejected"

\* eventManager.call() settles; the promise returned by merge() follows it.
SyncSettles ==
    /\ syncState = "pending"
    /\ \E ok \in BOOLEAN :
        /\ syncState' = IF ok THEN "fulfilled" ELSE "rejected"
        /\ mergeState' = FollowSync(ok)
        /\ mergeReason' = IF ok THEN NoError ELSE SyncError
    /\ UNCHANGED <<contacts, removeCalls, pc, gpc, updRes, remRes, actions, jobs, total,
                   progress, values, remaining, allState, allReason, summarized,
                   log, progressEvents, updatedEvents, mergedEvents,
                   storeUpdated, storeRemoved>>

Next ==
    \/ merge
    \/ \E g \in Groups : UpdateSettles(g)
    \/ \E g \in Groups : RemoveSettles(g)
    \/ \E g \in Groups : ResumeAfterUpdate(g)
    \/ \E g \in Groups : ResumeAfterRemove(g)
    \/ \E g \in Groups : Announce(g)
    \/ \E g \in Groups : AllElement(g)
    \/ Summarize
    \/ Finish
    \/ SyncSettles

Spec == Init /\ [][Next]_vars

----------------------------------------------------------------------------
\* Helpers of the properties

Range(seq) == { seq[i] : i \in 1..Len(seq) }

\* The group of the i-th progressBar event.
AnnouncedGroups ==
    LET isProgress(e) == e[1] = "progressBar"
        sel == SelectSeq(log, isProgress)
    IN [i \in 1..Len(sel) |-> sel[i][2]]

UpdateFailedWith(g, name) ==
    updRes[g].state = "rejected" /\ updRes[g].error.name = name

\* The error messages the store reported for group g.
ReportedMessages(g) ==
    (IF updRes[g].state = "rejected" THEN {updRes[g].error.message} ELSE {})
    \cup (IF remRes[g].state = "rejected" THEN {remRes[g].error.message} ELSE {})
    \cup { remRes[g].errors[i].Error : i \in 1..Len(remRes[g].errors) }

----------------------------------------------------------------------------
\* C1: the promise returned by merge() never rejects because of a group
\* failure: whenever it is rejected, eventManager.call() was made and
\* rejected, and the rejection reason is the synchronization error; when the
\* synchronization is fulfilled, merge() is fulfilled whatever the groups did.
C1_RejectsOnlyOnSyncFailure ==
    /\ mergeState = "rejected" => (syncState = "rejected" /\ mergeReason = SyncError)
    /\ syncState = "fulfilled" => mergeState = "fulfilled"
    /\ \A g \in Groups : actions[g].state # "rejected"

C1_Witness ==
    /\ mergeState = "fulfilled"
    /\ \E g \in Groups : UpdateFailedWith(g, "ContactUpdateError")
    /\ \E g \in Groups : UpdateFailedWith(g, "Error")

\* C2: when the final synchronization fails, merge() is rejected with the
\* synchronization error, exactly one contactsMerged event was emitted before
\* and its data accounts for every group (all groups settled, total, updated
\* records, removed IDs and error messages as the store reported them), and
\* the store still holds every update and removal it applied.
C2_SyncFailureKeepsGroupWork ==
    syncState = "rejected" =>
        /\ mergeState = "rejected" /\ mergeReason = SyncError
        /\ Len(mergedEvents) = 1
        /\ \A g \in Groups : actions[g].state = "fulfilled"
        /\ LET r == mergedEvents[1] IN
            /\ r.total = SumTotals(contacts, N)
            /\ Range(r.updated) =
                  { contacts[g].update : g \in { h \in Groups : actions[h].value.updated # Undefined } }
            /\ Len(r.updated) = Cardinality(Range(r.updated))
            /\ Range(r.removed) = UNION { Range(remRes[g].removed) : g \in Groups }
            /\ Len(r.removed) = Cardinality(Range(r.removed))
            /\ Range(r.errors) = UNION { ReportedMessages(g) : g \in Groups }
            /\ Len(r.errors) = Cardinality(Range(r.errors))
        /\ \A g \in Groups : updRes[g].state = "fulfilled" => contacts[g].update \in storeUpdated
        /\ \A g \in Groups : Range(remRes[g].removed) \subseteq storeRemoved

C2_Witness ==
    /\ syncState = "rejected"
    /\ N = 2
    /\ Len(mergedEvents[1].errors) >= 1
    /\ Len(mergedEvents[1].removed) >= 2
    /\ Cardinality(storeUpdated) = 2

\* C3: when Contact.update of a group fails with a ContactUpdateError, the
\* group's outcome has updated undefined, no removed identifiers and exactly
\* one error message (the error's), and Contact.remove is not called for the
\* group.
C3_ConflictOutcome ==
    \A g \in Groups :
        UpdateFailedWith(g, "ContactUpdateError") =>
            /\ removeCalls[g] = 0
            /\ remRes[g].state = "pending"
            /\ actions[g].state # "rejected"
            /\ actions[g].state = "fulfilled" =>
                /\ actions[g].value.updated = Undefined
                /\ actions[g].value.removed = <<>>
                /\ actions[g].value.errors = <<updRes[g].error.message>>

C3_Witness ==
    \E g \in Groups :
        /\ UpdateFailedWith(g, "ContactUpdateError")
        /\ Len(contacts[g].remove) = 2
        /\ actions[g].state = "fulfilled"

\* C4: when Contact.update of a group fails with an error that is not a
\* ContactUpdateError, the group's outcome has updated equal to the group's
\* contact to update and carries the error message, and Contact.remove is not
\* called for the group.
C4_OtherErrorOutcome ==
    \A g \in Groups :
        UpdateFailedWith(g, "Error") =>
            /\ removeCalls[g] = 0
            /\ remRes[g].state = "pending"
            /\ actions[g].state # "rejected"
            /\ actions[g].state = "fulfilled" =>
                /\ actions[g].value.updated = contacts[g].update
                /\ actions[g].value.errors = <<updRes[g].error.message>>
                /\ actions[g].value.removed = <<>>

C4_Witness ==
    \E g \in Groups :
        /\ UpdateFailedWith(g, "Error")
        /\ Len(contacts[g].remove) = 2
        /\ actions[g].state = "fulfilled"

\* C5: when the update of a group succeeds and Contact.remove returns a
\* result, the group's outcome has exactly the removed identifiers of the
\* result, exactly the message of each per-identifier error, and updated
\* equal to the contact to update, which the store still holds as updated.
C5_PartialRemoval ==
    \A g \in Groups :
        (updRes[g].state = "fulfilled" /\ remRes[g].state = "fulfilled"
         /\ actions[g].state # "pending") =>
            /\ actions[g].state = "fulfilled"
            /\ actions[g].value.removed = remRes[g].removed
            /\ Len(actions[g].value.errors) = Len(remRes[g].errors)
            /\ \A i \in 1..Len(remRes[g].errors) :
                   actions[g].value.errors[i] = remRes[g].errors[i].Error
            /\ actions[g].value.updated = contacts[g].update
            /\ contacts[g].update \in storeUpdated

C5_Witness ==
    \E g \in Groups :
        /\ updRes[g].state = "fulfilled" /\ remRes[g].state = "fulfilled"
        /\ actions[g].state = "fulfilled"
        /\ Len(remRes[g].removed) = 1 /\ Len(remRes[g].errors) = 1
        /\ actions[g].value.errors = << <<"not found", g, 2>> >>

\* C6: the promise of updateAndRemove is never rejected, and every outcome
\* has total = 1 + the number of IDs to remove of its group, whatever the
\* update and remove calls did.
C6_GroupTotal ==
    \A g \in Groups :
        /\ actions[g].state # "rejected"
        /\ actions[g].state = "fulfilled" =>
               actions[g].value.total = 1 + Len(contacts[g].remove)

C6_Witness ==
    /\ \E g \in Groups :
        /\ contacts[g].remove = <<>>
        /\ actions[g].state = "fulfilled" /\ actions[g].value.total = 1
    /\ \E g \in Groups :
        /\ updRes[g].state = "rejected"
        /\ actions[g].state = "fulfilled" /\ actions[g].value.total = 3

\* C7: once every group of a request with at least one group has resolved,
\* the last progress emitted is 100.
C7_FinalProgressIs100 ==
    (N >= 1 /\ Len(progressEvents) = N) => progressEvents[N] = 100

\* C8: the progress values emitted in a run never decrease, and each resolved
\* group adds floor(groupTotal * 100 / totalUnits) to the previous value.
C8_ProgressMonotone ==
    /\ Len(progressEvents) = Len(AnnouncedGroups)
    /\ \A i \in 1..Len(progressEvents) :
        LET prev == IF i = 1 THEN 0 ELSE progressEvents[i - 1]
            g == AnnouncedGroups[i]
        IN /\ progressEvents[i] >= prev
           /\ progressEvents[i] - prev =
                  ((1 + Len(contacts[g].remove)) * 100) \div SumTotals(contacts, N)

C8_Witness ==
    /\ Len(progressEvents) = 2
    /\ AnnouncedGroups = <<2, 1>>
    /\ progressEvents = <<75, 100>>

\* C9: every progress value emitted with a progressBar event is in [0,100].
C9_ProgressInRange ==
    \A i \in 1..Len(progressEvents) :
        progressEvents[i] >= 0 /\ progressEvents[i] <= 100

C9_Witness ==
    /\ Len(progressEvents) = 2
    /\ progressEvents[1] = 33
    /\ progressEvents[2] = 99

\* C10: each time a group resolves, one contactUpdated event is emitted whose
\* data.contact is the contact to update of that group.
C10_UpdatedPayloadIsCanonical ==
    /\ Len(updatedEvents) = Len(AnnouncedGroups)
    /\ \A i \in 1..Len(updatedEvents) :
           updatedEvents[i] = contacts[AnnouncedGroups[i]].update

----------------------------------------------------------------------------
\* Helpers of the properties on summaries and on the order of events

Perms == { p \in [Groups -> Groups] : \A i, j \in Groups : p[i] = p[j] => i = j }
Permute(seq, p) == [i \in 1..Len(seq) |-> seq[p[i]]]

Count(seq, x) == Cardinality({ i \in 1..Len(seq) : seq[i] = x })
SameBag(a, b) ==
    /\ Len(a) = Len(b)
    /\ \A x \in Range(a) \cup Range(b) : Count(a, x) = Count(b, x)

RECURSIVE Flatten(_)
Flatten(ss) == IF ss = <<>> THEN <<>> ELSE Head(ss) \o Flatten(Tail(ss))

RECURSIVE SumSeq(_)
SumSeq(ns) == IF ns = <<>> THEN 0 ELSE Head(ns) + SumSeq(Tail(ns))

Outcomes == [g \in Groups |-> actions[g].value]

\* Positions of an event in the log.
Positions(e) == { i \in 1..Len(log) : log[i] = e }
Emitted(e) == Positions(e) # {}
AllBefore(e, f) == \A i \in Positions(e), j \in Positions(f) : i < j

MergeSettled == mergeState \in {"fulfilled", "rejected"}

\* C11 (as claimed): summarizing any permutation of the outcomes of a run
\* gives an AggregateResult identical to the one of the run.
C11_OrderIndependent ==
    mergedEvents # <<>> =>
        \A p \in Perms : summarizeMergeResults(Permute(values, p)) = mergedEvents[1]

\* C11 (amended): summarizing any permutation of the outcomes of a run gives
\* the same total and the same updated records, removed identifiers and error
\* messages up to their order in the three sequences.
C11_OrderIndependentUpToOrder ==
    mergedEvents # <<>> =>
        \A p \in Perms :
            LET a == summarizeMergeResults(Permute(values, p))
                r == mergedEvents[1]
            IN /\ a.total = r.total
               /\ SameBag(a.updated, r.updated)
               /\ SameBag(a.removed, r.removed)
               /\ SameBag(a.errors, r.errors)

C11_Witness ==
    /\ mergedEvents # <<>>
    /\ N = 2
    /\ values[1].total # values[2].total
    /\ \E p \in Perms :
        /\ summarizeMergeResults(Permute(values, p)).updated # mergedEvents[1].updated
        /\ summarizeMergeResults(Permute(values, p)).errors # mergedEvents[1].errors

\* C12: the data of contactsMerged accounts for every group: updated is the
\* updated record of each outcome that has one, removed and errors are the
\* concatenations of the outcomes' removed identifiers and error messages
\* (in group order), and total is the sum of the outcomes' totals, equal to
\* the total used for the progress.
C12_SummaryAccountsForEveryGroup ==
    mergedEvents # <<>> =>
        LET r == mergedEvents[1]
            present(u) == u # Undefined
        IN /\ \A g \in Groups : actions[g].state = "fulfilled"
           /\ r.updated = SelectSeq([g \in Groups |-> Outcomes[g].updated], present)
           /\ r.removed = Flatten([g \in Groups |-> Outcomes[g].removed])
           /\ r.errors = Flatten([g \in Groups |-> Outcomes[g].errors])
           /\ r.total = SumSeq([g \in Groups |-> Outcomes[g].total])
           /\ r.total = total

C12_Witness ==
    /\ mergedEvents # <<>>
    /\ N = 2
    /\ mergedEvents[1].updated = <<Canonical(2)>>
    /\ Len(mergedEvents[1].removed) = 1
    /\ Len(mergedEvents[1].errors) = 2
    /\ mergedEvents[1].total = 4

Activate == <<"contactLoaderModal.activate", 0>>
ContactsUpdated == <<"contactsUpdated", 0>>
ContactsMerged == <<"contactsMerged", 0>>
SyncCall == <<"eventManager.call", 0>>

\* Group g has a store call in flight or its promise is not settled.
InFlight(g) ==
    \/ gpc[g] # "settled"
    \/ actions[g].state = "pending"
    \/ updRes[g].state = "pending"
    \/ (removeCalls[g] > 0 /\ remRes[g].state = "pending")

\* C13: contactLoaderModal.activate (merge mode) is called exactly once per
\* run and before the first Contact.update or Contact.remove call of any
\* group.
C13_MergeStartingFirst ==
    /\ Cardinality(Positions(Activate)) <= 1
    /\ pc = "running" => Cardinality(Positions(Activate)) = 1
    /\ \A g \in Groups :
        /\ AllBefore(Activate, <<"Contact.update", g>>)
        /\ (Emitted(<<"Contact.update", g>>) \/ removeCalls[g] > 0
            \/ updRes[g].state # "pending") => Emitted(Activate)

C13_Witness ==
    /\ pc = "running"
    /\ N = 2
    /\ Emitted(<<"Contact.update", 2>>)
    /\ removeCalls[1] = 1

\* C14: contactsUpdated and contactsMerged are each emitted at most once, in
\* that order, only when no group is in flight, and exactly once by the time
\* merge() has settled.
C14_FinalNotificationsOnce ==
    /\ Cardinality(Positions(ContactsUpdated)) <= 1
    /\ Cardinality(Positions(ContactsMerged)) <= 1
    /\ Emitted(ContactsUpdated) <=> Emitted(ContactsMerged)
    /\ \A i \in Positions(ContactsUpdated) : i < Len(log) /\ log[i + 1] = ContactsMerged
    /\ Emitted(ContactsMerged) => \A g \in Groups : ~InFlight(g)
    /\ MergeSettled => (Emitted(ContactsUpdated) /\ Emitted(ContactsMerged))
    /\ Len(mergedEvents) = Cardinality(Positions(ContactsMerged))

C14_Witness ==
    /\ Emitted(ContactsMerged)
    /\ N = 2
    /\ updRes[1].state = "rejected"
    /\ remRes[2].state = "fulfilled"
    /\ MergeSettled

\* C15: for a request with zero groups (total = 0) the progress of the run
\* is 100: once the run has announced its end, the progress is 100 or a
\* progressBar event carrying 100 was emitted.
C15_ZeroTotalIsFullProgress ==
    (N = 0 /\ mergedEvents # <<>>) =>
        (progress = 100 \/ \E i \in 1..Len(progressEvents) : progressEvents[i] = 100)

\* C16: every group is processed exactly once whatever happens to the other
\* groups: Contact.update is called once per group, Contact.remove at most
\* once and only after a successful update, the promise of a group never
\* changes once settled, and when merge() has settled every group has
\* produced its outcome, which is the one Promise.all collected.
C16_EveryGroupOnce ==
    /\ [](\A g \in Groups :
            /\ Cardinality(Positions(<<"Contact.update", g>>)) <= 1
            /\ pc = "running" => Emitted(<<"Contact.update", g>>)
            /\ removeCalls[g] <= 1
            /\ removeCalls[g] = 1 => updRes[g].state = "fulfilled"
            /\ Cardinality(Positions(<<"progressBar", g>>)) <= 1
            /\ (MergeSettled \/ Emitted(ContactsMerged)) =>
                  /\ actions[g].state = "fulfilled"
                  /\ values[g] = actions[g].value
                  /\ (updRes[g].state = "fulfilled" => removeCalls[g] = 1))
    /\ [][\A g \in Groups :
            /\ actions[g].state # "pending" => actions'[g] = actions[g]
            /\ updRes[g].state # "pending" => updRes'[g] = updRes[g]
            /\ remRes[g].state # "pending" => remRes'[g] = remRes[g]]_vars

C16_Witness ==
    /\ MergeSettled
    /\ N = 2
    /\ updRes[1].state = "rejected" /\ removeCalls[1] = 0
    /\ updRes[2].state = "fulfilled" /\ removeCalls[2] = 1
    /\ actions[2].value.updated = Canonical(2)

\* C17: eventManager.call() is made at most once per run, right after
\* contactsMerged was emitted and with no group in flight, and the promise
\* returned by merge() is fulfilled exactly when that call is fulfilled and
\* rejected (with its error) exactly when it is rejected.
C17_SyncOnceAtEnd ==
    /\ Cardinality(Positions(SyncCall)) <= 1
    /\ syncState # "notCalled" <=> Emitted(SyncCall)
    /\ \A i \in Positions(SyncCall) : i > 1 /\ log[i - 1] = ContactsMerged
    /\ Emitted(SyncCall) => \A g \in Groups : ~InFlight(g)
    /\ mergeState = "fulfilled" <=> syncState = "fulfilled"
    /\ mergeState = "rejected" <=> syncState = "rejected"
    /\ mergeState = "rejected" => mergeReason = SyncError
    /\ pc = "running" /\ syncState \in {"notCalled", "pending"} => mergeState = "pending"

C17_Witness ==
    /\ syncState = "rejected" /\ mergeState = "rejected"
    /\ N = 2
    /\ Emitted(SyncCall)
    /\ \E g \in Groups : remRes[g].state = "rejected"

----------------------------------------------------------------------------
\* Event-loop scheduling: promise jobs run to completion before the next
\* task (a call of merge(), a store response, the synchronization response).
\* Fairness: the job queue is eventually drained, and every store call and
\* the synchronization call eventually settle.
StoreSettles == \E g \in Groups : UpdateSettles(g) \/ RemoveSettles(g)
RunJob ==
    \/ \E g \in Groups : ResumeAfterUpdate(g) \/ ResumeAfterRemove(g)
                         \/ Announce(g) \/ AllElement(g)
    \/ Summarize
    \/ Finish
LoopMerge == jobs = <<>> /\ merge
LoopStoreSettles == jobs = <<>> /\ StoreSettles
LoopSyncSettles == jobs = <<>> /\ SyncSettles

LoopNext ==
    \/ RunJob
    \/ LoopMerge
    \/ LoopStoreSettles
    \/ LoopSyncSettles

FairSpec ==
    /\ Init /\ [][LoopNext]_vars
    /\ WF_vars(RunJob)
    /\ WF_vars(LoopStoreSettles)
    /\ WF_vars(LoopSyncSettles)

\* C18: once merge() has been called, eventually every group has produced
\* its outcome, contactsMerged has been emitted and merge() has settled.
C18_RunCompletes ==
    (pc = "running") ~>
        (/\ \A g \in Groups : actions[g].state = "fulfilled" /\ ~InFlight(g)
         /\ Emitted(ContactsMerged)
         /\ MergeSettled)

C18_Witness ==
    /\ mergeState = "fulfilled"
    /\ N = 2
    /\ \A g \in Groups : remRes[g].state = "fulfilled" /\ actions[g].state = "fulfilled"
    /\ jobs = <<>>

\* C19: each group gets at most one progressBar and one contactUpdated
\* event, and when contactsMerged is emitted both have already been emitted
\* for every group of the request, the last group to resolve included.
C19_GroupNotificationsBeforeMerged ==
    /\ \A g \in Groups :
        /\ Cardinality(Positions(<<"progressBar", g>>)) <= 1
        /\ Cardinality(Positions(<<"contactUpdated", g>>)) <= 1
    /\ Emitted(ContactsMerged) =>
        /\ \A g \in Groups :
            /\ Emitted(<<"progressBar", g>>)
            /\ Emitted(<<"contactUpdated", g>>)
            /\ AllBefore(<<"progressBar", g>>, ContactsMerged)
            /\ AllBefore(<<"contactUpdated", g>>, ContactsMerged)
        /\ Len(progressEvents) = N
        /\ Len(updatedEvents) = N

C19_Witness ==
    /\ N = 2
    /\ Emitted(ContactsMerged)
    /\ \E i \in 1..(Len(log) - 5) :
        /\ log[i] = <<"progressBar", 2>>
        /\ log[i + 1] = <<"contactUpdated", 2>>
        /\ log[i + 2] = <<"progressBar", 1>>
        /\ log[i + 3] = <<"contactUpdated", 1>>
        /\ log[i + 4] = ContactsUpdated
        /\ log[i + 5] = ContactsMerged

\* C20: when the update of a group succeeds and Contact.remove rejects, the
\* promise of the group is still fulfilled: total = 1 + the number of IDs to
\* remove, no removed identifiers, the rejection's message as the only error
\* message, and updated equal to the contact to update unless the rejection
\* is a ContactUpdateError, in which case updated is undefined although the
\* store applied the update.
C20_RemoveRejects ==
    \A g \in Groups :
        (updRes[g].state = "fulfilled" /\ remRes[g].state = "rejected"
         /\ actions[g].state # "pending") =>
            /\ actions[g].state = "fulfilled"
            /\ actions[g].value.total = 1 + Len(contacts[g].remove)
            /\ actions[g].value.removed = <<>>
            /\ actions[g].value.errors = <<remRes[g].error.message>>
            /\ actions[g].value.updated =
                  IF remRes[g].error.name = "ContactUpdateError"
                  THEN Undefined ELSE contacts[g].update
            /\ contacts[g].update \in storeUpdated

C20_Witness ==
    \E g \in Groups :
        /\ updRes[g].state = "fulfilled"
        /\ remRes[g].state = "rejected"
        /\ remRes[g].error.name = "ContactUpdateError"
        /\ actions[g].state = "fulfilled"
        /\ actions[g].value.updated = Undefined
        /\ contacts[g].update \in storeUpdated
        /\ Len(contacts[g].remove) = 2

====
